---- MODULE Spec2Model ----
(***************************************************************************)
(* Model of the incremental regeneration pipeline of AttriOS (MetaGPT      *)
(* fork): WriteCode.get_codes, WriteCode.write_code, WriteCode.run,        *)
(* WriteCode.ensure_critical_files (metagpt/actions/write_code.py) and     *)
(* WriteDesign.run (metagpt/actions/design_api.py).                        *)
(***************************************************************************)
EXTENDS Integers, Sequences, FiniteSets, TLC

VARIABLES
    gc,         \* the get_codes call: its arguments and its result
    srcs,       \* project_repo.srcs: filename -> content (current workspace)
    old_srcs,   \* the old workspace's file repository: filename -> content
    run,        \* WriteCode.run: its position, its coding context, its prompt
    wc,         \* the write_code call under @retry: attempts, responses, outcome
    fs,         \* the file system under the workspace: path -> "absent", "dir" or a file's content
    ens,        \* the ensure_critical_files calls: how many, and what the last one did
    prds,       \* repo.docs.prd: filename -> content
    designs,    \* repo.docs.system_design: filename -> content and dependencies
    wd,         \* WriteDesign.run: its position, the files left, changed_files
    fills,      \* the calls of the generation backend made by WriteDesign, in order
    outputs,    \* the diagrams and PDFs written by WriteDesign, in order
    ex,         \* the direct calls of the extraction steps: how many, and what the last one did
    steps       \* the extraction steps called by WriteDesign.run, in order

vars == <<gc, srcs, old_srcs, run, wc, fs, ens, prds, designs, wd, fills, outputs, ex, steps>>
design_vars == <<prds, designs, wd, fills, outputs, ex, steps>>
codes_vars == <<gc, srcs, old_srcs>>
gen_vars == <<run, wc>>
fs_vars == <<fs, ens>>

----------------------------------------------------------------------------
(* Bounds *)

MaxStore == 2       \* at most this many files in each source store
MaxLen == 4         \* at most this many entries in a task list

----------------------------------------------------------------------------
(* Values *)

Files == {"a.js", "b.js", "c.js", "main.py"}
Contents == {"v1", "v2"}

\* An optional Document is a record with a "nil" flag.
NoDoc == [nil |-> TRUE]

\* All stores (filename -> content) holding at most n files.
Stores(n) == UNION {[S -> Contents] : S \in {T \in SUBSET Files : Cardinality(T) <= n}}

EmptyStore == [f \in {} |-> "v1"]

\* All orders in which a set can be iterated.
Orders(S) == {s \in [1..Cardinality(S) -> S] : \A i, j \in 1..Cardinality(S) : s[i] = s[j] => i = j}

TaskLists == UNION {[1..n -> Files] : n \in 0..MaxLen}

\* A task document: absent, with empty content, or with a JSON content whose
\* task list (TASK_LIST.key, or REFINED_TASK_LIST.key in incremental mode) is given.
TaskDoc(content_empty, task_list) == [nil |-> FALSE, empty |-> content_empty, task_list |-> task_list]

----------------------------------------------------------------------------
(* WriteCode.get_codes *)

\* f"----- {filename}\n```{doc.content}```"
code_block(filename, content) == [kind |-> "code", filename |-> filename, content |-> content]

\* f"-----Now, {filename} to be rewritten\n```{doc.content}```\n====="
rewritten_block(filename, content) == [kind |-> "rewritten", filename |-> filename, content |-> content]

\* file_repo.get(filename): the document, or None
repo_get(store, filename) ==
    IF filename \in DOMAIN store THEN [nil |-> FALSE, content |-> store[filename]] ELSE NoDoc

\* insert0 with the block appended instead of put first.
insert0_appends(codes, x) == Append(codes, x)

\* codes.insert(0, x)
insert0(codes, x) == <<x>> \o codes

\* inc_codes with a file that is absent from the src workspace taken from the old one.
RECURSIVE inc_codes_old_fallback(_, _, _, _, _)
inc_codes_old_fallback(union_files_list, exclude, src_store, old_store, codes) ==
    IF union_files_list = <<>> THEN codes
    ELSE LET filename == Head(union_files_list)
             rest == Tail(union_files_list)
         IN IF filename = exclude
            THEN IF filename \in DOMAIN old_store /\ filename # "main.py"
                 THEN inc_codes_old_fallback(rest, exclude, src_store, old_store,
                                insert0(codes, rewritten_block(filename, repo_get(old_store, filename).content)))
                 ELSE inc_codes_old_fallback(rest, exclude, src_store, old_store, codes)
            ELSE LET doc == IF filename \in DOMAIN src_store THEN repo_get(src_store, filename)
                                                             ELSE repo_get(old_store, filename)
                 IN IF doc.nil
                    THEN inc_codes_old_fallback(rest, exclude, src_store, old_store, codes)
                    ELSE inc_codes_old_fallback(rest, exclude, src_store, old_store,
                                   Append(codes, code_block(filename, doc.content)))

\* inc_codes with the file to be rewritten shown with its src workspace content when it has one.
RECURSIVE inc_codes_src_first(_, _, _, _, _)
inc_codes_src_first(union_files_list, exclude, src_store, old_store, codes) ==
    IF union_files_list = <<>> THEN codes
    ELSE LET filename == Head(union_files_list)
             rest == Tail(union_files_list)
         IN IF filename = exclude
            THEN IF filename \in DOMAIN old_store /\ filename # "main.py"
                 THEN LET doc == IF filename \in DOMAIN src_store THEN repo_get(src_store, filename)
                                                                  ELSE repo_get(old_store, filename)
                      IN inc_codes_src_first(rest, exclude, src_store, old_store,
                                insert0(codes, rewritten_block(filename, doc.content)))
                 ELSE inc_codes_src_first(rest, exclude, src_store, old_store, codes)
            ELSE LET doc == repo_get(src_store, filename)
                 IN IF doc.nil
                    THEN inc_codes_src_first(rest, exclude, src_store, old_store, codes)
                    ELSE inc_codes_src_first(rest, exclude, src_store, old_store,
                                   Append(codes, code_block(filename, doc.content)))

\* inc_codes without the test that keeps main.py out of the marker block.
RECURSIVE inc_codes_marks_main_py(_, _, _, _, _)
inc_codes_marks_main_py(union_files_list, exclude, src_store, old_store, codes) ==
    IF union_files_list = <<>> THEN codes
    ELSE LET filename == Head(union_files_list)
             rest == Tail(union_files_list)
         IN IF filename = exclude
            THEN IF filename \in DOMAIN old_store
                 THEN inc_codes_marks_main_py(rest, exclude, src_store, old_store,
                                insert0(codes, rewritten_block(filename, repo_get(old_store, filename).content)))
                 ELSE inc_codes_marks_main_py(rest, exclude, src_store, old_store, codes)
            ELSE LET doc == repo_get(src_store, filename)
                 IN IF doc.nil
                    THEN inc_codes_marks_main_py(rest, exclude, src_store, old_store, codes)
                    ELSE inc_codes_marks_main_py(rest, exclude, src_store, old_store,
                                   Append(codes, code_block(filename, doc.content)))

\* The loop of the incremental scenario over union_files_list.
RECURSIVE inc_codes(_, _, _, _, _)
inc_codes(union_files_list, exclude, src_store, old_store, codes) ==
    IF union_files_list = <<>> THEN codes
    ELSE LET filename == Head(union_files_list)
             rest == Tail(union_files_list)
         IN IF filename = exclude
            THEN IF filename \in DOMAIN old_store /\ filename # "main.py"
                 THEN inc_codes(rest, exclude, src_store, old_store,
                                insert0(codes, rewritten_block(filename, repo_get(old_store, filename).content)))
                 ELSE inc_codes(rest, exclude, src_store, old_store, codes)
            ELSE LET doc == repo_get(src_store, filename)
                 IN IF doc.nil
                    THEN inc_codes(rest, exclude, src_store, old_store, codes)
                    ELSE inc_codes(rest, exclude, src_store, old_store,
                                   Append(codes, code_block(filename, doc.content)))

\* normal_codes without the test that skips the file to be generated.
RECURSIVE normal_codes_keeps_exclude(_, _, _, _)
normal_codes_keeps_exclude(code_filenames, exclude, src_store, codes) ==
    IF code_filenames = <<>> THEN codes
    ELSE LET filename == Head(code_filenames)
             rest == Tail(code_filenames)
             doc == repo_get(src_store, filename)
         IN IF doc.nil
            THEN normal_codes_keeps_exclude(rest, exclude, src_store, codes)
            ELSE normal_codes_keeps_exclude(rest, exclude, src_store, Append(codes, code_block(filename, doc.content)))

\* The loop of the normal scenario over code_filenames.
RECURSIVE normal_codes(_, _, _, _)
normal_codes(code_filenames, exclude, src_store, codes) ==
    IF code_filenames = <<>> THEN codes
    ELSE LET filename == Head(code_filenames)
             rest == Tail(code_filenames)
             doc == repo_get(src_store, filename)
         IN IF filename = exclude \/ doc.nil
            THEN normal_codes(rest, exclude, src_store, codes)
            ELSE normal_codes(rest, exclude, src_store, Append(codes, code_block(filename, doc.content)))

newline == [kind |-> "newline"]

\* "\n".join(codes): the blocks separated by newlines; "" (the empty text) for no block.
RECURSIVE join(_)
join(codes) ==
    IF codes = <<>> THEN <<>>
    ELSE IF Len(codes) = 1 THEN <<Head(codes)>>
    ELSE <<Head(codes), newline>> \o join(Tail(codes))

\* get_codes(task_doc, exclude, project_repo, use_inc), with the iteration order
\* of list(set(src_files) | set(old_files)) given as union_files_list.
\* A task document with empty content is replaced by the un-awaited coroutine
\* of project_repo.docs.task.get, whose .content raises AttributeError.
get_codes(task_doc, exclude, src_store, old_store, use_inc, union_files_list) ==
    IF task_doc.nil THEN [raised |-> FALSE, codes |-> <<>>, text |-> <<>>]
    ELSE IF task_doc.empty THEN [raised |-> TRUE, codes |-> <<>>, text |-> <<>>]
    ELSE LET codes == IF use_inc
                      THEN inc_codes(union_files_list, exclude, src_store, old_store, <<>>)
                      ELSE normal_codes(task_doc.task_list, exclude, src_store, <<>>)
         IN [raised |-> FALSE, codes |-> codes, text |-> join(codes)]

----------------------------------------------------------------------------
(* The file system under the workspace *)

\* The first path segments that make ensure_critical_files use the workspace itself.
WellKnown == {"frontend", "backend", "package.json"}

\* The filenames a coding context is about.
TargetFiles == {"package.json", "frontend/App.js", "backend/server.js", "myapp/backend/server.js", "main.py"}

\* Path(filename).parts
parts(filename) ==
    CASE filename = "package.json" -> <<"package.json">>
      [] filename = "frontend/App.js" -> <<"frontend", "App.js">>
      [] filename = "backend/server.js" -> <<"backend", "server.js">>
      [] filename = "myapp/backend/server.js" -> <<"myapp", "backend", "server.js">>
      [] filename = "main.py" -> <<"main.py">>
      [] OTHER -> <<filename>>

\* The first segments that name a project directory.
Projects == {"myapp", "main.py"}

\* Paths relative to the workspace (workspace_path itself is <<>>).
Paths == {<<>>, <<"package.json">>, <<"frontend">>, <<"backend">>}
         \cup {<<p>> : p \in Projects}
         \cup {<<p, n>> : p \in Projects, n \in WellKnown}

\* critical_files["package.json"], the content a user wrote, and a file left empty.
DefaultManifest == "critical_files[package.json]"
UserContent == "user content"
EmptyFile == ""
FileContents == {DefaultManifest, UserContent, EmptyFile}

IsFile(node) == node \in FileContents

\* full_path.parent
parent(path) == SubSeq(path, 1, Len(path) - 1)

\* A file system: every entry that exists lies in a directory.
IsFileSystem(f) ==
    /\ f[<<>>] = "dir"
    /\ \A path \in Paths \ {<<>>} : f[path] # "absent" => f[parent(path)] = "dir"

\* The outcome of a step of ensure_critical_files: the file system, whether an exception
\* is propagating, the files added, and the file operations made, in order.
Outcome(f, raised, added, log) == [fs |-> f, raised |-> raised, added |-> added, log |-> log]

Op(op, path, ok) == [op |-> op, path |-> path, ok |-> ok]

\* Path.mkdir(parents=True, exist_ok=True): nothing to do for a directory, an error for
\* a file in the way (FileExistsError, NotADirectoryError), missing parents created first.
RECURSIVE mkdir(_, _)
mkdir(f, path) ==
    IF f[path] = "dir" THEN [fs |-> f, raised |-> FALSE]
    ELSE IF IsFile(f[path]) THEN [fs |-> f, raised |-> TRUE]
    ELSE LET up == mkdir(f, parent(path))
         IN IF up.raised THEN up ELSE [fs |-> [up.fs EXCEPT ![path] = "dir"], raised |-> FALSE]

\* A mkdir statement outside any try block: an exception it raises propagates.
then_mkdir(o, path) ==
    IF o.raised THEN o
    ELSE LET made == mkdir(o.fs, path)
         IN Outcome(made.fs, made.raised, o.added, Append(o.log, Op("mkdir", path, ~made.raised)))

\* full_path.exists() answering False for a file that is there.
exists_never(f, path) == FALSE

\* full_path.exists()
exists(f, path) == f[path] # "absent"

\* project_repo.srcs.save(filename=str(full_path), dependencies=..., content=content):
\* writes the file when it succeeds, raises otherwise.
srcs_save(f, path, content, ok) ==
    IF ok THEN [fs |-> [f EXCEPT ![path] = content], raised |-> FALSE]
          ELSE [fs |-> f, raised |-> TRUE]

\* The ways the direct write can end: written; open() fails; open() creates
\* the file and f.write() fails.
WriteOutcomes == {"written", "open fails", "write fails"}

\* with open(full_path, 'w') as f: f.write(content)
direct_write(f, path, content, how) ==
    CASE how = "written" -> [fs |-> [f EXCEPT ![path] = content], raised |-> FALSE]
      [] how = "open fails" -> [fs |-> f, raised |-> TRUE]
      [] how = "write fails" -> [fs |-> [f EXCEPT ![path] = EmptyFile], raised |-> TRUE]

\* The dependencies argument of the save: evaluating it raises AttributeError when the
\* design or the task document is None.
dependencies_raise(coding_context) == coding_context.design_doc.nil \/ coding_context.task_doc.nil

\* The guard without the test of the root-relative path.
has_code_root_without_path(coding_context) == ~coding_context.code_doc.nil

\* The guard of ensure_critical_files: a code document with a root-relative path.
has_code_root(coding_context) ==
    ~coding_context.code_doc.nil /\ coding_context.code_doc.has_path

\* project_dir left at the workspace whatever the filename.
project_dir_workspace(coding_context) == <<>>

\* project_dir: the workspace, or the directory named by the first segment of the filename.
project_dir(coding_context) ==
    LET filename_parts == parts(coding_context.filename)
    IN IF Len(filename_parts) > 0 /\ filename_parts[1] \notin WellKnown
       THEN <<filename_parts[1]>> ELSE <<>>

\* create_manifest without the direct write after a failed save.
create_manifest_no_fallback(o, coding_context, full_path, save_ok, how) ==
    IF o.raised THEN o
    ELSE LET checked == Append(o.log, Op("exists", full_path, exists(o.fs, full_path)))
         IN IF exists(o.fs, full_path) THEN Outcome(o.fs, FALSE, o.added, checked)
            ELSE LET called == ~dependencies_raise(coding_context)
                     saved == srcs_save(o.fs, full_path, DefaultManifest, called /\ save_ok)
                     log_saved == IF called THEN Append(checked, Op("save", full_path, save_ok)) ELSE checked
                 IN Outcome(saved.fs, FALSE, IF saved.raised THEN o.added ELSE o.added \cup {full_path}, log_saved)

\* Lines 191-214: the existence check, the save through the store, the direct write as fallback.
create_manifest(o, coding_context, full_path, save_ok, how) ==
    IF o.raised THEN o
    ELSE LET checked == Append(o.log, Op("exists", full_path, exists(o.fs, full_path)))
         IN IF exists(o.fs, full_path) THEN Outcome(o.fs, FALSE, o.added, checked)
            ELSE LET called == ~dependencies_raise(coding_context)
                     saved == srcs_save(o.fs, full_path, DefaultManifest, called /\ save_ok)
                     log_saved == IF called THEN Append(checked, Op("save", full_path, save_ok)) ELSE checked
                 IN IF ~saved.raised
                    THEN Outcome(saved.fs, FALSE, o.added \cup {full_path}, log_saved)
                    ELSE LET wrote == direct_write(saved.fs, full_path, DefaultManifest, how)
                             log_wrote == Append(log_saved, Op("write", full_path, ~wrote.raised))
                         IN Outcome(wrote.fs, FALSE,
                                    IF wrote.raised THEN o.added ELSE o.added \cup {full_path}, log_wrote)

\* ensure_critical_files with the sub-area directories made under every project root.
ensure_critical_files_always_mkdir(coding_context, f, save_ok, how) ==
    LET start == Outcome(f, FALSE, {}, <<>>)
    IN IF ~has_code_root(coding_context) THEN start
       ELSE LET dir == project_dir(coding_context)
                frontend == then_mkdir(start, dir \o <<"frontend">>)
                backend == then_mkdir(frontend, dir \o <<"backend">>)
                full_path == dir \o <<"package.json">>
                ready == then_mkdir(backend, parent(full_path))
            IN create_manifest(ready, coding_context, full_path, save_ok, how)

\* ensure_critical_files(coding_context, project_repo) on file system f, where save_ok
\* tells whether the store save succeeds and how tells how the direct write ends.
ensure_critical_files(coding_context, f, save_ok, how) ==
    LET start == Outcome(f, FALSE, {}, <<>>)
    IN IF ~has_code_root(coding_context) THEN start
       ELSE LET dir == project_dir(coding_context)
                frontend == IF dir # <<>> THEN then_mkdir(start, dir \o <<"frontend">>) ELSE start
                backend == IF dir # <<>> THEN then_mkdir(frontend, dir \o <<"backend">>) ELSE frontend
                full_path == dir \o <<"package.json">>
                ready == then_mkdir(backend, parent(full_path))
            IN create_manifest(ready, coding_context, full_path, save_ok, how)

\* A Document of the coding context: present or None.
CodeDoc(has_path, content) == [nil |-> FALSE, has_path |-> has_path, content |-> content]
DesignDoc == [nil |-> FALSE, content |-> "design"]

CodingContext(filename, code_doc, design_doc, task_doc) ==
    [filename |-> filename, code_doc |-> code_doc, design_doc |-> design_doc, task_doc |-> task_doc]

\* No ensure_critical_files call made yet.
NoEnsure == [calls |-> 0, raised |-> FALSE, added |-> {}, log |-> <<>>, ctx |-> NoDoc, all_added |-> {}]

----------------------------------------------------------------------------
(* WriteCode.write_code under @retry, and WriteCode.run *)

\* stop_after_attempt(6)
MaxAttempts == 6

\* stop_after_attempt giving up one attempt early.
stop_after_attempt_early(attempt_number) == attempt_number >= MaxAttempts - 1

\* stop_after_attempt with the bound off by one.
stop_after_attempt_late(attempt_number) == attempt_number > MaxAttempts

\* The stop condition of the retry: no further attempt after attempt_number.
stop_after_attempt(attempt_number) == attempt_number >= MaxAttempts

\* Raw responses of the backend, as token sequences: with and without a fenced block.
\* Fence is the line of three backquotes that opens or closes a block.
Fence == "fence"
Responses == {<<"code1">>, <<"talk", Fence, "code2", Fence, "talk">>}

\* CodeParser.parse_code(block="", text): the body of the first fenced block, or the
\* whole text when there is none.
parse_code(text) ==
    LET fences == {i \in 1..Len(text) : text[i] = Fence}
    IN IF Cardinality(fences) >= 2
       THEN LET open == CHOOSE i \in fences : \A k \in fences : i <= k
                close == CHOOSE j \in fences \ {open} : \A k \in fences \ {open} : j <= k
            IN SubSeq(text, open + 1, close - 1)
       ELSE text

\* The outcome of one call of self._aask(prompt).
Failed == [ok |-> FALSE, text |-> <<>>]
Answered(text) == [ok |-> TRUE, text |-> text]

\* No write_code call.
NoWriteCode == [status |-> "idle", attempts |-> 0, prompts |-> <<>>, outcomes |-> <<>>, result |-> <<>>]

\* write_code(prompt) entered: no attempt made yet.
write_code_called == [status |-> "pending", attempts |-> 0, prompts |-> <<>>, outcomes |-> <<>>, result |-> <<>>]

\* The content of a document as text.
NoText == <<>>
design_content(doc) == IF doc.nil THEN NoText ELSE <<doc.content>>
task_content(doc) == IF doc.nil \/ doc.empty THEN NoText ELSE <<"json">> \o doc.task_list

\* PROMPT_TEMPLATE.format(...) / REFINED_TEMPLATE.format(...)
NoPrompt == [nil |-> TRUE]
format_prompt(r, code_context) ==
    [nil |-> FALSE,
     template |-> IF r.inc THEN "REFINED_TEMPLATE" ELSE "PROMPT_TEMPLATE",
     user_requirement |-> IF r.inc /\ r.requirement THEN <<"requirement">> ELSE NoText,
     design |-> design_content(r.ctx.design_doc),
     task |-> task_content(r.ctx.task_doc),
     code |-> code_context,
     feedback |-> IF r.bug_feedback THEN <<"bug">> ELSE NoText,
     filename |-> r.ctx.filename]

\* No run.
NoRun == [pc |-> "none", ctx |-> NoDoc, bug_feedback |-> FALSE, inc |-> FALSE, requirement |-> FALSE,
          prompt |-> NoPrompt, error |-> "none"]

\* A run about to start on a coding context.
RunStart(ctx, bug_feedback, inc, requirement) ==
    [pc |-> "start", ctx |-> ctx, bug_feedback |-> bug_feedback, inc |-> inc, requirement |-> requirement,
     prompt |-> NoPrompt, error |-> "none"]

\* Lines 219-267 of run: the lookups, the code context and the prompt. With bug
\* feedback the code context is the code document's content (AttributeError without a
\* code document); otherwise get_codes is called, and an exception of it propagates.
RunBegin ==
    /\ run.pc = "start"
    /\ IF run.bug_feedback
       THEN /\ IF run.ctx.code_doc.nil
               THEN /\ run' = [run EXCEPT !.pc = "raised", !.error = "code_doc"]
                    /\ wc' = wc
               ELSE /\ run' = [run EXCEPT !.pc = "write_code",
                                          !.prompt = format_prompt(run, run.ctx.code_doc.content)]
                    /\ wc' = write_code_called
            /\ gc' = gc
       ELSE \E order \in Orders(DOMAIN srcs \cup DOMAIN old_srcs) :
              LET result == get_codes(run.ctx.task_doc, run.ctx.filename, srcs, old_srcs, run.inc, order)
              IN /\ gc' = [gc EXCEPT !.called = TRUE, !.union_files_list = IF run.inc THEN order ELSE <<>>,
                                     !.result = result]
                 /\ IF result.raised
                    THEN /\ run' = [run EXCEPT !.pc = "raised", !.error = "get_codes"]
                         /\ wc' = wc
                    ELSE /\ run' = [run EXCEPT !.pc = "write_code", !.prompt = format_prompt(run, result.text)]
                         /\ wc' = write_code_called
    /\ UNCHANGED <<srcs, old_srcs, fs_vars, design_vars>>

\* A failed attempt after which run starts over from its lookups.
AskFails_restarts_run ==
    /\ run.pc = "write_code" /\ wc.status = "pending"
    /\ wc' = [wc EXCEPT !.attempts = wc.attempts + 1,
                        !.prompts = Append(wc.prompts, run.prompt),
                        !.outcomes = Append(wc.outcomes, Failed),
                        !.status = IF stop_after_attempt(wc.attempts + 1) THEN "raised" ELSE "pending"]
    /\ run' = [run EXCEPT !.pc = IF stop_after_attempt(wc.attempts + 1) THEN "write_code" ELSE "start",
                          !.prompt = IF stop_after_attempt(wc.attempts + 1) THEN run.prompt ELSE NoPrompt]
    /\ UNCHANGED <<codes_vars, fs_vars, design_vars>>

\* One attempt of write_code whose backend call fails: retried after the wait unless
\* the stop condition holds, and then the error is raised to the caller.
AskFails ==
    /\ run.pc = "write_code" /\ wc.status = "pending"
    /\ wc' = [wc EXCEPT !.attempts = wc.attempts + 1,
                        !.prompts = Append(wc.prompts, run.prompt),
                        !.outcomes = Append(wc.outcomes, Failed),
                        !.status = IF stop_after_attempt(wc.attempts + 1) THEN "raised" ELSE "pending"]
    /\ UNCHANGED <<run, codes_vars, fs_vars, design_vars>>

\* One attempt of write_code whose backend call answers: the parsed code is returned.
AskSucceeds ==
    /\ run.pc = "write_code" /\ wc.status = "pending"
    /\ \E text \in Responses :
          wc' = [wc EXCEPT !.attempts = wc.attempts + 1,
                           !.prompts = Append(wc.prompts, run.prompt),
                           !.outcomes = Append(wc.outcomes, Answered(text)),
                           !.status = "returned",
                           !.result = parse_code(text)]
    /\ UNCHANGED <<run, codes_vars, fs_vars, design_vars>>

\* Lines 268-273 of run: the code returned by write_code, or "" when it raised.
code_after(call) == IF call.status = "raised" THEN NoText ELSE call.result

\* Lines 275-279 of run: the code document is created if missing and given the code.
with_code(ctx, code) == [ctx EXCEPT !.code_doc = CodeDoc(IF ctx.code_doc.nil THEN TRUE ELSE ctx.code_doc.has_path, code)]

\* Lines 268-279 of run, once write_code has returned or raised.
RunAfterWriteCode ==
    /\ run.pc = "write_code" /\ wc.status \in {"returned", "raised"}
    /\ run' = [run EXCEPT !.pc = "ensure", !.ctx = with_code(run.ctx, code_after(wc))]
    /\ UNCHANGED <<wc, codes_vars, fs_vars, design_vars>>

\* Lines 281-287 of run: ensure_critical_files, then the coding context is returned; an
\* exception of ensure_critical_files propagates.
RunEnsure ==
    /\ run.pc = "ensure"
    /\ \E save_ok \in BOOLEAN, how \in WriteOutcomes :
          LET o == ensure_critical_files(run.ctx, fs, save_ok, how)
          IN /\ fs' = o.fs
             /\ ens' = [calls |-> ens.calls + 1, raised |-> o.raised, added |-> o.added, log |-> o.log,
                        ctx |-> run.ctx, all_added |-> ens.all_added \cup o.added]
             /\ run' = [run EXCEPT !.pc = IF o.raised THEN "raised" ELSE "returned",
                                   !.error = IF o.raised THEN "ensure_critical_files" ELSE "none"]
    /\ UNCHANGED <<wc, codes_vars, design_vars>>

----------------------------------------------------------------------------
(* Direct calls of ensure_critical_files *)

MaxCalls == 2       \* at most this many calls in a row

\* A call of ensure_critical_files on the coding context ens.ctx.
EnsureCall ==
    /\ run.pc = "none" /\ ens.calls < MaxCalls
    /\ \E save_ok \in BOOLEAN, how \in WriteOutcomes :
          LET o == ensure_critical_files(ens.ctx, fs, save_ok, how)
          IN /\ fs' = o.fs
             /\ ens' = [ens EXCEPT !.calls = ens.calls + 1, !.raised = o.raised, !.added = o.added,
                                   !.log = o.log, !.all_added = ens.all_added \cup o.added]
    /\ UNCHANGED <<gen_vars, codes_vars, design_vars>>

----------------------------------------------------------------------------
(* Initial states *)

\* The file system with the given entries: the workspace's manifest, frontend and
\* backend, the project myapp with its manifest, frontend and backend, and main.py.
MakeFS(manifest, frontend, backend, myapp, myapp_manifest, myapp_frontend, myapp_backend, main_py) ==
    [path \in Paths |->
        CASE path = <<>> -> "dir"
          [] path = <<"package.json">> -> manifest
          [] path = <<"frontend">> -> frontend
          [] path = <<"backend">> -> backend
          [] path = <<"myapp">> -> myapp
          [] path = <<"myapp", "package.json">> -> myapp_manifest
          [] path = <<"myapp", "frontend">> -> myapp_frontend
          [] path = <<"myapp", "backend">> -> myapp_backend
          [] path = <<"main.py">> -> main_py
          [] OTHER -> "absent"]

\* The file systems a call can start from: each entry is absent, a directory or a
\* file, below a directory; main.py, when there, is the code file of that name.
FileSystems ==
    {f \in {MakeFS(manifest, frontend, backend, myapp, myapp_manifest, myapp_frontend, myapp_backend, main_py) :
                manifest \in {"absent", UserContent, DefaultManifest},
                frontend \in {"absent", "dir"},
                backend \in {"absent", "dir"},
                myapp \in {"absent", "dir", UserContent},
                myapp_manifest \in {"absent", UserContent, DefaultManifest},
                myapp_frontend \in {"absent", "dir", UserContent},
                myapp_backend \in {"absent", "dir", UserContent},
                main_py \in {"absent", UserContent}} : IsFileSystem(f)}

\* A file system with nothing but the workspace directory.
EmptyFS == [path \in Paths |-> IF path = <<>> THEN "dir" ELSE "absent"]

\* The file systems a run starts from: a few of FileSystems.
RunFileSystems == {f \in FileSystems :
                      /\ f[<<"frontend">>] = "absent" /\ f[<<"backend">>] = "absent"
                      /\ f[<<"package.json">>] # DefaultManifest
                      /\ \A n \in WellKnown : f[<<"myapp", n>>] = "absent"}

----------------------------------------------------------------------------
(* WriteDesign.run *)

\* The filenames of requirement (PRD) and design documents.
DesignFiles == {"1.json", "2.json"}

\* The contents of requirement documents.
PrdContents == {"requirement r1", "requirement r2"}

\* The keys of the structured design that the extraction steps look up.
DATA_STRUCTURES_AND_INTERFACES == "Data structures and interfaces"
REFINED_DATA_STRUCTURES_AND_INTERFACES == "Refined Data structures and interfaces"
PROGRAM_CALL_FLOW == "Program call flow"
REFINED_PROGRAM_CALL_FLOW == "Refined Program call flow"

\* The content of a design document: JSON or not, the node that produced it, the
\* context it was produced from, and the keys of the JSON object that have a value.
DesignContent(json, node, context, keys) == [json |-> json, node |-> node, context |-> context, keys |-> keys]

\* REACT_NODE_TEMPLATE: markdown, not JSON.
REACT_NODE_TEMPLATE == DesignContent(FALSE, "REACT_NODE_TEMPLATE", <<>>, {})

\* A design written by an earlier round of generation.
LegacyDesign == DesignContent(TRUE, "legacy", <<>>, {DATA_STRUCTURES_AND_INTERFACES, PROGRAM_CALL_FLOW})

\* The context of _new_system_design: the requirement content.
new_context(prd_content) == [old_design |-> <<>>, context |-> prd_content]

\* NEW_REQ_TEMPLATE with the legacy section left empty.
NEW_REQ_TEMPLATE_no_legacy(old_design, prd_content) == [old_design |-> <<>>, context |-> prd_content]

\* NEW_REQ_TEMPLATE.format(old_design=system_design_doc.content, context=prd_doc.content)
NEW_REQ_TEMPLATE(old_design, prd_content) == [old_design |-> <<old_design>>, context |-> prd_content]

\* str(self.repo.docs.prd.workdir / filename) and prd.root_relative_path
workdir_path(filename) == [root |-> "workdir", dir |-> "docs/prd", filename |-> filename]
root_relative_path(filename) == [root |-> "", dir |-> "docs/prd", filename |-> filename]

\* A document of the design store.
SavedDesign(content, dependencies) == [content |-> content, dependencies |-> dependencies]

\* A call of the generation backend: NODE.fill(context=context, llm=self.llm).
Fill(node, context, filename) == [node |-> node, context |-> context, filename |-> filename]

\* An output handed to the diagram renderer or the PDF writer.
Output(op, filename) == [op |-> op, filename |-> filename]

\* What the environment decides during one _update_system_design: whether the backend
\* answers, which keys its answer has, whether the store save, the two renderings and
\* the PDF save succeed.
Environments ==
    [llm_ok : BOOLEAN, has_data_api : BOOLEAN, has_seq_flow : BOOLEAN, save_ok : BOOLEAN,
     class_view_ok : BOOLEAN, seq_flow_ok : BOOLEAN, pdf_ok : BOOLEAN]

\* The outcome of _update_system_design: the design store, the error raised if any,
\* the backend calls made, the outputs written and the extraction steps called, in order.
Updated(store, error, asked, written) ==
    [designs |-> store, error |-> error, fills |-> asked, outputs |-> written, steps |-> <<>>]

\* A call of an extraction step on the design document of a filename.
Step(method, filename) == [method |-> method, filename |-> filename]

\* The keys of the answer of a node.
answer_keys(refined, env) ==
    (IF env.has_data_api
     THEN {IF refined THEN REFINED_DATA_STRUCTURES_AND_INTERFACES ELSE DATA_STRUCTURES_AND_INTERFACES} ELSE {})
    \cup (IF env.has_seq_flow
          THEN {IF refined THEN REFINED_PROGRAM_CALL_FLOW ELSE PROGRAM_CALL_FLOW} ELSE {})

\* The outcome of one extraction step: the error raised if any, and the outputs written.
Extracted(error, written) == [error |-> error, outputs |-> written]

\* The body shared by _save_data_api_design and _save_seq_flow: json.loads raises on a
\* content that is not JSON; the description is looked up under the initial key, then under
\* the refined one; without a description the step returns, with one the diagram is
\* rendered to a file, which may fail.
extraction(content, initial_key, refined_key, op, filename, render_ok) ==
    IF ~content.json THEN Extracted("json.loads", <<>>)
    ELSE IF {initial_key, refined_key} \cap content.keys = {} THEN Extracted("none", <<>>)
    ELSE IF ~render_ok THEN Extracted("mermaid_to_file", <<>>)
    ELSE Extracted("none", <<Output(op, filename)>>)

\* _save_data_api_design(design_doc)
save_data_api_design(filename, content, render_ok) ==
    extraction(content, DATA_STRUCTURES_AND_INTERFACES, REFINED_DATA_STRUCTURES_AND_INTERFACES,
               "class_view", filename, render_ok)

\* _save_seq_flow(design_doc)
save_seq_flow(filename, content, render_ok) ==
    extraction(content, PROGRAM_CALL_FLOW, REFINED_PROGRAM_CALL_FLOW, "seq_flow", filename, render_ok)

\* extract without the call of _save_seq_flow.
extract_skips_seq_flow(u, filename, content, env) ==
    LET class_view == save_data_api_design(filename, content, env.class_view_ok)
        out1 == u.outputs \o class_view.outputs
        steps1 == Append(u.steps, Step("_save_data_api_design", filename))
    IN IF class_view.error # "none"
       THEN [u EXCEPT !.error = class_view.error, !.outputs = out1, !.steps = steps1]
       ELSE IF ~env.pdf_ok THEN [u EXCEPT !.error = "save_pdf", !.outputs = out1, !.steps = steps1]
       ELSE [u EXCEPT !.outputs = Append(out1, Output("pdf", filename)), !.steps = steps1]

\* Lines 158-160: _save_data_api_design, _save_seq_flow and save_pdf on the saved document,
\* one after the other; an exception of a step propagates and the later steps are not run.
extract(u, filename, content, env) ==
    LET class_view == save_data_api_design(filename, content, env.class_view_ok)
        out1 == u.outputs \o class_view.outputs
        steps1 == Append(u.steps, Step("_save_data_api_design", filename))
    IN IF class_view.error # "none"
       THEN [u EXCEPT !.error = class_view.error, !.outputs = out1, !.steps = steps1]
       ELSE LET seq_flow == save_seq_flow(filename, content, env.seq_flow_ok)
                out2 == out1 \o seq_flow.outputs
                steps2 == Append(steps1, Step("_save_seq_flow", filename))
            IN IF seq_flow.error # "none"
               THEN [u EXCEPT !.error = seq_flow.error, !.outputs = out2, !.steps = steps2]
               ELSE IF ~env.pdf_ok THEN [u EXCEPT !.error = "save_pdf", !.outputs = out2, !.steps = steps2]
               ELSE [u EXCEPT !.outputs = Append(out2, Output("pdf", filename)), !.steps = steps2]

\* _update_system_design(filename) on the requirement store and the design store.
update_system_design(filename, prd_store, design_store, env) ==
    LET start == Updated(design_store, "none", <<>>, <<>>)
    IN IF filename \notin DOMAIN prd_store
       THEN [start EXCEPT !.error = "prd is None"]
       ELSE LET refined == filename \in DOMAIN design_store
                node == IF refined THEN "REFINED_DESIGN_NODE" ELSE "DESIGN_API_NODE"
                context == IF refined THEN NEW_REQ_TEMPLATE(design_store[filename].content, prd_store[filename])
                                      ELSE new_context(prd_store[filename])
                asked == [start EXCEPT !.fills = <<Fill(node, context, filename)>>]
                content == DesignContent(TRUE, node, context, answer_keys(refined, env))
            IN IF ~env.llm_ok THEN [asked EXCEPT !.error = "fill"]
               ELSE IF ~env.save_ok THEN [asked EXCEPT !.error = "save"]
               ELSE extract([asked EXCEPT !.designs =
                                (filename :> SavedDesign(content, {root_relative_path(filename)})) @@ design_store],
                            filename, content, env)

\* No run of WriteDesign.
NoDesignRun ==
    [pc |-> "none", changed_prds |-> <<>>, changed_system_designs |-> <<>>, old_designs |-> {},
     todo_prds |-> <<>>, todo_designs |-> <<>>, changed_files |-> <<>>, error |-> "none"]

\* run entered: changed_prds and changed_system_designs read, changed_files empty;
\* old_designs remembers which design documents existed when run was entered.
DesignRunStart(changed_prds, changed_system_designs, old_designs) ==
    [pc |-> "running", changed_prds |-> changed_prds, changed_system_designs |-> changed_system_designs,
     old_designs |-> old_designs, todo_prds |-> changed_prds, todo_designs |-> changed_system_designs,
     changed_files |-> <<>>, error |-> "none"]

\* changed_files.docs taken as empty by the test of the second loop.
Handled_none == {}

\* The filenames in changed_files.docs.
Handled == {wd.changed_files[i] : i \in 1..Len(wd.changed_files)}

\* The save of the first loop without the dependency on the requirement.
template_design_no_dependency(filename) == SavedDesign(REACT_NODE_TEMPLATE, {})

\* Lines 116-121: the document saved for a changed requirement.
template_design(filename) == SavedDesign(REACT_NODE_TEMPLATE, {workdir_path(filename)})

\* One iteration of the loop over changed_prds (lines 115-121).
ProcessChangedPrd ==
    /\ wd.pc = "running" /\ wd.todo_prds # <<>>
    /\ LET filename == Head(wd.todo_prds)
       IN \E save_ok \in BOOLEAN :
            IF save_ok
            THEN /\ designs' = (filename :> template_design(filename)) @@ designs
                 /\ wd' = [wd EXCEPT !.todo_prds = Tail(wd.todo_prds),
                                     !.changed_files = Append(wd.changed_files, filename)]
            ELSE /\ designs' = designs
                 /\ wd' = [wd EXCEPT !.pc = "raised", !.error = "save",
                                     !.changed_files = Append(wd.changed_files, filename)]
    /\ UNCHANGED <<prds, fills, outputs, ex, steps, codes_vars, gen_vars, fs_vars>>

\* One iteration of the loop over changed_system_designs (lines 124-128).
ProcessChangedDesign ==
    /\ wd.pc = "running" /\ wd.todo_prds = <<>> /\ wd.todo_designs # <<>>
    /\ LET filename == Head(wd.todo_designs)
       IN IF filename \in Handled
          THEN /\ wd' = [wd EXCEPT !.todo_designs = Tail(wd.todo_designs)]
               /\ UNCHANGED <<designs, fills, outputs, steps>>
          ELSE \E env \in Environments :
                 LET u == update_system_design(filename, prds, designs, env)
                 IN /\ designs' = u.designs
                    /\ fills' = fills \o u.fills
                    /\ outputs' = outputs \o u.outputs
                    /\ steps' = steps \o u.steps
                    /\ wd' = IF u.error # "none"
                             THEN [wd EXCEPT !.pc = "raised", !.error = u.error]
                             ELSE [wd EXCEPT !.todo_designs = Tail(wd.todo_designs),
                                             !.changed_files = Append(wd.changed_files, filename)]
    /\ UNCHANGED <<prds, ex, codes_vars, gen_vars, fs_vars>>

\* Lines 130-133: the end of run.
DesignRunReturn ==
    /\ wd.pc = "running" /\ wd.todo_prds = <<>> /\ wd.todo_designs = <<>>
    /\ wd' = [wd EXCEPT !.pc = "returned"]
    /\ UNCHANGED <<prds, designs, fills, outputs, ex, steps, codes_vars, gen_vars, fs_vars>>

\* The timeout with the documents that run has saved taken out of the store again.
Timeout_rolls_back ==
    /\ wd.pc = "running"
    /\ wd' = [wd EXCEPT !.pc = "cancelled"]
    /\ designs' = [f \in DOMAIN designs \ Handled |-> designs[f]]
    /\ UNCHANGED <<prds, fills, outputs, ex, steps, codes_vars, gen_vars, fs_vars>>

\* The wrapper's timeout ends the process while run is under way.
Timeout ==
    /\ wd.pc = "running"
    /\ wd' = [wd EXCEPT !.pc = "cancelled"]
    /\ UNCHANGED <<prds, designs, fills, outputs, ex, steps, codes_vars, gen_vars, fs_vars>>

\* No direct call of an extraction step made yet.
NoExtract == [calls |-> 0, method |-> "none", filename |-> "none", error |-> "none"]

\* A call of _save_data_api_design on a document of the design store.
SaveDataApiDesign ==
    /\ wd.pc = "none" /\ ex.calls < MaxCalls
    /\ \E filename \in DOMAIN designs, render_ok \in BOOLEAN :
          LET o == save_data_api_design(filename, designs[filename].content, render_ok)
          IN /\ ex' = [calls |-> ex.calls + 1, method |-> "_save_data_api_design",
                       filename |-> filename, error |-> o.error]
             /\ outputs' = outputs \o o.outputs
    /\ UNCHANGED <<prds, designs, wd, fills, steps, codes_vars, gen_vars, fs_vars>>

\* A call of _save_seq_flow on a document of the design store.
SaveSeqFlow ==
    /\ wd.pc = "none" /\ ex.calls < MaxCalls
    /\ \E filename \in DOMAIN designs, render_ok \in BOOLEAN :
          LET o == save_seq_flow(filename, designs[filename].content, render_ok)
          IN /\ ex' = [calls |-> ex.calls + 1, method |-> "_save_seq_flow",
                       filename |-> filename, error |-> o.error]
             /\ outputs' = outputs \o o.outputs
    /\ UNCHANGED <<prds, designs, wd, fills, steps, codes_vars, gen_vars, fs_vars>>

\* The state of a get_codes call that has not been made yet.
NotCalled(task_doc, exclude, use_inc) ==
    [task_doc |-> task_doc, exclude |-> exclude, use_inc |-> use_inc, called |-> FALSE,
     union_files_list |-> <<>>, result |-> [raised |-> FALSE, codes |-> <<>>, text |-> <<>>]]

\* A call of get_codes in the normal scenario.
GetCodesNormal ==
    /\ ~gc.called /\ ~gc.use_inc
    /\ gc' = [gc EXCEPT !.called = TRUE,
                        !.result = get_codes(gc.task_doc, gc.exclude, srcs, old_srcs, FALSE, <<>>)]
    /\ UNCHANGED <<srcs, old_srcs, gen_vars, fs_vars, design_vars>>

\* A call of get_codes in the incremental scenario; the set union is iterated in any order.
GetCodesIncremental ==
    /\ ~gc.called /\ gc.use_inc
    /\ \E order \in Orders(DOMAIN srcs \cup DOMAIN old_srcs) :
          gc' = [gc EXCEPT !.called = TRUE, !.union_files_list = order,
                           !.result = get_codes(gc.task_doc, gc.exclude, srcs, old_srcs, TRUE, order)]
    /\ UNCHANGED <<srcs, old_srcs, gen_vars, fs_vars, design_vars>>

TaskDocs == {NoDoc} \cup {TaskDoc(TRUE, <<>>)} \cup {TaskDoc(FALSE, l) : l \in TaskLists}

\* The variables a specification does not use keep these values.
CodesUnused == gc = NotCalled(NoDoc, "a.js", FALSE) /\ srcs = EmptyStore /\ old_srcs = EmptyStore
GenUnused == run = NoRun /\ wc = NoWriteCode
FsUnused == fs = EmptyFS /\ ens = NoEnsure
DesignUnused ==
    /\ prds = [f \in {} |-> "requirement r1"] /\ designs = [f \in {} |-> SavedDesign(REACT_NODE_TEMPLATE, {})]
    /\ wd = NoDesignRun /\ fills = <<>> /\ outputs = <<>> /\ ex = NoExtract /\ steps = <<>>

\* Inputs of get_codes: the normal scenario never reads the old workspace and the
\* incremental scenario never uses the task list.
InitCodes ==
    /\ \/ /\ srcs \in Stores(MaxStore)
          /\ old_srcs = EmptyStore
          /\ \E t \in TaskDocs, e \in Files : gc = NotCalled(t, e, FALSE)
       \/ /\ srcs \in Stores(MaxStore)
          /\ old_srcs \in Stores(MaxStore)
          /\ \E t \in {NoDoc, TaskDoc(TRUE, <<>>), TaskDoc(FALSE, <<>>)}, e \in Files : gc = NotCalled(t, e, TRUE)
    /\ GenUnused /\ FsUnused /\ DesignUnused

NextCodes == GetCodesNormal \/ GetCodesIncremental

SpecCodes == InitCodes /\ [][NextCodes]_vars

\* The coding contexts ensure_critical_files is called with.
EnsureContexts ==
    {CodingContext(f, cd, dd, td) :
        f \in TargetFiles,
        cd \in {NoDoc, CodeDoc(FALSE, NoText), CodeDoc(TRUE, <<"legacy">>)},
        dd \in {NoDoc, DesignDoc},
        td \in {NoDoc, TaskDoc(FALSE, <<>>)}}

\* Calls of ensure_critical_files in a row on one coding context, from any file system.
InitEnsure ==
    /\ fs \in FileSystems
    /\ \E c \in EnsureContexts : ens = [NoEnsure EXCEPT !.ctx = c]
    /\ GenUnused /\ CodesUnused /\ DesignUnused

NextEnsure == EnsureCall

SpecEnsure == InitEnsure /\ [][NextEnsure]_vars

\* The coding contexts a run is given (CodingContext.loads(self.i_context.content)).
RunContexts ==
    {CodingContext(f, cd, dd, td) :
        f \in {"package.json", "myapp/backend/server.js", "main.py"},
        cd \in {NoDoc, CodeDoc(TRUE, <<"legacy">>)},
        dd \in {NoDoc, DesignDoc},
        td \in {NoDoc, TaskDoc(TRUE, <<>>), TaskDoc(FALSE, <<"a.js", "main.py">>)}}

\* One run of WriteCode on a coding context.
Init ==
    /\ srcs = [f \in {"a.js", "main.py"} |-> IF f = "a.js" THEN "v1" ELSE "v2"]
    /\ old_srcs = [f \in {"b.js", "main.py"} |-> "v1"]
    /\ fs \in RunFileSystems
    /\ ens = NoEnsure
    /\ wc = NoWriteCode
    /\ \E c \in RunContexts, bug_feedback \in BOOLEAN, inc \in BOOLEAN, requirement \in BOOLEAN :
          /\ (requirement => inc)
          /\ run = RunStart(c, bug_feedback, inc, requirement)
          /\ gc = NotCalled(c.task_doc, c.filename, inc)
    /\ DesignUnused

Next == RunBegin \/ AskFails \/ AskSucceeds \/ RunAfterWriteCode \/ RunEnsure

Spec == Init /\ [][Next]_vars

\* The stores of requirement and design documents.
PrdStores == UNION {[S -> PrdContents] : S \in SUBSET DesignFiles}
DesignStores == UNION {[S -> {SavedDesign(REACT_NODE_TEMPLATE, {}), SavedDesign(LegacyDesign, {})}] : S \in SUBSET DesignFiles}

\* changed_files of a store: some filenames, in the order of the mapping.
ChangedFiles == UNION {Orders(S) : S \in SUBSET DesignFiles}

InitDesign ==
    /\ prds \in PrdStores
    /\ designs \in DesignStores
    /\ \E changed_prds \in ChangedFiles, changed_system_designs \in ChangedFiles :
          wd = DesignRunStart(changed_prds, changed_system_designs, DOMAIN designs)
    /\ fills = <<>> /\ outputs = <<>> /\ ex = NoExtract /\ steps = <<>>
    /\ CodesUnused /\ GenUnused /\ FsUnused

NextDesign == ProcessChangedPrd \/ ProcessChangedDesign \/ DesignRunReturn \/ Timeout

SpecDesign == InitDesign /\ [][NextDesign]_vars

\* A design whose answer has a call flow and no interface description.
CallFlowOnly == DesignContent(TRUE, "REFINED_DESIGN_NODE", <<>>, {REFINED_PROGRAM_CALL_FLOW})

\* The design stores the extraction steps are called on: the documents are the template
\* saved for a changed requirement, or structured results of the backend.
ExtractStores ==
    UNION {[S -> {SavedDesign(REACT_NODE_TEMPLATE, {}), SavedDesign(LegacyDesign, {}), SavedDesign(CallFlowOnly, {})}] :
              S \in SUBSET DesignFiles}

\* Calls of the extraction steps in a row on the documents of a design store.
InitExtract ==
    /\ designs \in ExtractStores
    /\ prds = [f \in {} |-> "requirement r1"]
    /\ wd = NoDesignRun /\ fills = <<>> /\ outputs = <<>> /\ ex = NoExtract /\ steps = <<>>
    /\ CodesUnused /\ GenUnused /\ FsUnused

NextExtract == SaveDataApiDesign \/ SaveSeqFlow

SpecExtract == InitExtract /\ [][NextExtract]_vars

----------------------------------------------------------------------------
(* Properties of get_codes *)

\* The call has returned from the incremental loop (a task document with content was given).
IncReturned == gc.called /\ gc.use_inc /\ ~gc.task_doc.nil /\ ~gc.result.raised
NormalReturned == gc.called /\ ~gc.use_inc /\ ~gc.task_doc.nil /\ ~gc.result.raised

\* The indices of the blocks of codes that are about filename.
BlocksOf(codes, filename) == {i \in 1..Len(codes) : codes[i].filename = filename}

\* The position of filename in an order without repetitions.
Pos(order, filename) == CHOOSE k \in 1..Len(order) : order[k] = filename

\* The scenario of C5: current files {a.js, b.js}, old files {b.js, c.js}, exclude = b.js.
C5_Scenario ==
    /\ DOMAIN srcs = {"a.js", "b.js"} /\ DOMAIN old_srcs = {"b.js", "c.js"} /\ gc.exclude = "b.js"

\* C5 as stated: in incremental mode every non-excluded file of the union that exists
\* only in the old store gets a block built from its old-store content (in the scenario
\* the marker block for b.js comes first, then blocks for a.js and for c.js).
C5_AsStated ==
    IncReturned =>
        /\ \A f \in (DOMAIN old_srcs \ DOMAIN srcs) \ {gc.exclude} :
              \E i \in 1..Len(gc.result.codes) : gc.result.codes[i] = code_block(f, old_srcs[f])
        /\ C5_Scenario =>
              /\ Len(gc.result.codes) = 3
              /\ gc.result.codes[1] = rewritten_block("b.js", old_srcs["b.js"])

\* C5 amended: in incremental mode a non-excluded file of the union gets a block if and
\* only if it exists in the current store, and the block is built from its current-store
\* content; a file that exists only in the old store gets no block. In the scenario the
\* output is the marker block for b.js (old content) followed by the block for a.js only.
C5_Amended ==
    IncReturned =>
        /\ \A f \in (DOMAIN srcs \cup DOMAIN old_srcs) \ {gc.exclude} :
              IF f \in DOMAIN srcs
              THEN \E i \in 1..Len(gc.result.codes) :
                      /\ BlocksOf(gc.result.codes, f) = {i}
                      /\ gc.result.codes[i] = code_block(f, srcs[f])
              ELSE BlocksOf(gc.result.codes, f) = {}
        /\ C5_Scenario =>
              gc.result.codes = <<rewritten_block("b.js", old_srcs["b.js"]), code_block("a.js", srcs["a.js"])>>

C5_Witness == IncReturned /\ C5_Scenario /\ Len(gc.result.codes) = 2

\* C6: in incremental mode at most one rewritten-file marker block is produced, it is the
\* first block of the output when produced, and the other blocks follow in the order in
\* which the union was iterated.
C6_MarkerFirst ==
    IncReturned =>
        LET codes == gc.result.codes
            markers == {i \in 1..Len(codes) : codes[i].kind = "rewritten"}
        IN /\ Cardinality(markers) <= 1
           /\ markers \subseteq {1}
           /\ \A i, j \in (1..Len(codes)) \ markers :
                 i < j => Pos(gc.union_files_list, codes[i].filename) < Pos(gc.union_files_list, codes[j].filename)

\* The marker is produced after two other blocks were appended.
C6_Witness ==
    /\ IncReturned /\ Len(gc.result.codes) = 3
    /\ gc.result.codes[1].kind = "rewritten"
    /\ Pos(gc.union_files_list, gc.exclude) = Len(gc.union_files_list)

\* C7: in incremental mode, when the excluded file exists in the old store and is not
\* main.py, the first block is the marker block with the old-store content of that file,
\* and no other block is about the excluded file (so its current-store content is not shown).
C7_MarkerOldContent ==
    (IncReturned /\ gc.exclude \in DOMAIN old_srcs /\ gc.exclude # "main.py") =>
        /\ Len(gc.result.codes) >= 1
        /\ gc.result.codes[1] = rewritten_block(gc.exclude, old_srcs[gc.exclude])
        /\ BlocksOf(gc.result.codes, gc.exclude) = {1}

\* The excluded file is in both stores, with different contents.
C7_Witness ==
    /\ IncReturned /\ gc.exclude \in DOMAIN old_srcs /\ gc.exclude \in DOMAIN srcs
    /\ gc.exclude # "main.py" /\ srcs[gc.exclude] # old_srcs[gc.exclude]
    /\ Len(gc.result.codes) >= 2

\* The filenames of the task list that get a block in normal mode.
C8_Kept(f) == f # gc.exclude /\ f \in DOMAIN srcs

\* C8: in normal mode the output has no block for the excluded file and one block per
\* occurrence of every other task-list filename that exists in the current store, in
\* the order of the task list.
C8_NormalOrder ==
    NormalReturned =>
        LET kept == SelectSeq(gc.task_doc.task_list, C8_Kept)
            codes == gc.result.codes
        IN /\ Len(codes) = Len(kept)
           /\ \A i \in 1..Len(codes) : codes[i] = code_block(kept[i], srcs[kept[i]])
           /\ BlocksOf(codes, gc.exclude) = {}

\* The task list names the excluded file (which exists), a file that does not exist and
\* one file twice.
C8_Witness ==
    /\ NormalReturned /\ gc.exclude \in DOMAIN srcs
    /\ \E i, j, k, l \in 1..Len(gc.task_doc.task_list) :
          /\ gc.task_doc.task_list[i] = gc.exclude
          /\ gc.task_doc.task_list[j] \notin DOMAIN srcs
          /\ k < l /\ gc.task_doc.task_list[k] = gc.task_doc.task_list[l]
          /\ C8_Kept(gc.task_doc.task_list[k])
    /\ Len(gc.result.codes) = 2

\* The task document is absent, or present with empty content.
AbsentOrEmpty(task_doc) == task_doc.nil \/ task_doc.empty

\* C9: get_codes returns the empty text, without failing, whenever the task document is
\* absent or its content is empty, in both modes.
C9_EmptyText ==
    (gc.called /\ AbsentOrEmpty(gc.task_doc)) => (~gc.result.raised /\ gc.result.text = <<>>)

----------------------------------------------------------------------------
(* Properties of write_code and run *)

\* The first n backend calls of the write_code call all failed.
AllFailed(n) == \A i \in 1..n : ~wc.outcomes[i].ok

\* The code in a raw response: the body of its fenced block, or all of it without one.
ExpectedCode(text) == IF text = <<"code1">> THEN <<"code1">> ELSE <<"code2">>

\* C1: with a backend that fails exactly k times and then succeeds, k in 0..5,
\* write_code returns the parsed result of attempt k+1 and does not raise (with k = 5
\* the result of the 6th attempt).
C1_RetryThenSucceed ==
    \A k \in 0..5 :
        /\ (Len(wc.outcomes) = k /\ AllFailed(k)) => wc.status # "raised"
        /\ (Len(wc.outcomes) = k + 1 /\ AllFailed(k) /\ wc.outcomes[k + 1].ok) =>
              /\ wc.status = "returned"
              /\ wc.attempts = k + 1
              /\ wc.result = ExpectedCode(wc.outcomes[k + 1].text)

\* Five failures, then the 6th attempt answers with a fenced block.
C1_Witness ==
    /\ wc.status = "returned" /\ wc.attempts = 6 /\ AllFailed(5)
    /\ wc.outcomes[6].text # wc.result

\* C2: with a backend that fails on every attempt write_code makes exactly 6 backend
\* calls and then raises; a 7th backend call is never made.
C2_SixAttempts ==
    /\ wc.attempts <= 6 /\ Len(wc.outcomes) = wc.attempts
    /\ wc.status = "raised" => (wc.attempts = 6 /\ AllFailed(6))
    /\ (wc.attempts = 6 /\ AllFailed(6)) => wc.status = "raised"
    /\ (wc.attempts < 6 /\ AllFailed(wc.attempts)) => wc.status \in {"idle", "pending"}

C2_Witness == wc.status = "raised" /\ wc.attempts = 6 /\ run.pc = "write_code"

\* The run has ended, by returning or by raising.
RunEnded == run.pc \in {"returned", "raised"}

\* C3: when write_code raises after its retries are exhausted, run does not raise: it
\* sets the code document's content to the empty string, runs ensure_critical_files and
\* returns the coding context.
C3_RunReturns ==
    (wc.status = "raised" /\ RunEnded) =>
        /\ run.pc = "returned"
        /\ ~run.ctx.code_doc.nil /\ run.ctx.code_doc.content = NoText
        /\ ens.calls = 1 /\ ens.ctx = run.ctx

\* The manifest path under the project root inferred for a coding context.
ManifestOf(coding_context) == project_dir(coding_context) \o <<"package.json">>

\* The paths of the manifests.
Manifests == {path \in Paths : path # <<>> /\ path[Len(path)] = "package.json" /\ Len(path) <= 2}

\* The store saves and direct writes in a log of file operations.
Writes(log) == {i \in 1..Len(log) : log[i].op \in {"save", "write"}}

\* C4: once a file exists at a manifest path, no call of ensure_critical_files changes
\* its content, and a call that finds the manifest of its target makes no store save and
\* no direct write (so a second call in a row leaves what the first one created).
C4_NeverOverwrites ==
    [][/\ \A path \in Manifests : fs[path] # "absent" => fs'[path] = fs[path]
       /\ (ens'.calls = ens.calls + 1 /\ has_code_root(ens'.ctx) /\ fs[ManifestOf(ens'.ctx)] # "absent") =>
              Writes(ens'.log) = {}]_vars

\* The second call in a row finds the manifest that the first call created.
C4_Witness ==
    /\ ens.calls = 2 /\ ManifestOf(ens.ctx) \in ens.all_added /\ ens.added = {}
    /\ \E i \in 1..Len(ens.log) : ens.log[i] = Op("exists", ManifestOf(ens.ctx), TRUE)
    /\ fs[ManifestOf(ens.ctx)] = DefaultManifest

\* C13: ensure_critical_files never raises: whichever step fails (the creation of the
\* sub-area directories or of the manifest's parent directory, the store save, the direct
\* write), and also without design or task document, the call returns a set.
C13_NeverRaises == ens.calls > 0 => ~ens.raised

\* The first path segment of the target filename of a coding context.
FirstSegment(coding_context) == parts(coding_context.filename)[1]

\* The indices of the operations of a kind in a log of file operations.
OpsOf(log, ops) == {i \in 1..Len(log) : log[i].op \in ops}

\* C14: when the manifest is absent and the store save fails, ensure_critical_files
\* attempts one direct write of the default content to the same path; the returned set
\* contains the manifest path if and only if the store save or the direct write succeeded;
\* when both fail the set does not contain it and no exception is raised.
C14_FallbackWrite ==
    (ens.calls > 0 /\ ~ens.ctx.code_doc.nil /\ ens.ctx.code_doc.has_path) =>
        LET manifest == IF FirstSegment(ens.ctx) \in WellKnown THEN <<"package.json">>
                        ELSE <<FirstSegment(ens.ctx), "package.json">>
            log == ens.log
            absent == \E i \in 1..Len(log) : log[i] = Op("exists", manifest, FALSE)
            save_ok == \E i \in 1..Len(log) : log[i] = Op("save", manifest, TRUE)
            writes == OpsOf(log, {"write"})
        IN absent =>
              /\ ~ens.raised
              /\ save_ok => (writes = {} /\ fs[manifest] = DefaultManifest)
              /\ ~save_ok => \E i \in 1..Len(log) :
                                /\ writes = {i}
                                /\ log[i].path = manifest
                                /\ log[i].ok => fs[manifest] = DefaultManifest
              /\ manifest \in ens.added <=> (save_ok \/ \E i \in writes : log[i].ok)
              /\ ens.added \subseteq {manifest}

\* The store save failed (or could not be called for want of a design document) and the
\* direct write put the manifest in place.
C14_Witness ==
    /\ ens.calls > 0 /\ ~ens.raised
    /\ ens.ctx.filename = "myapp/backend/server.js"
    /\ \E i \in 1..Len(ens.log) : ens.log[i] = Op("save", <<"myapp", "package.json">>, FALSE)
    /\ \E i \in 1..Len(ens.log) : ens.log[i] = Op("write", <<"myapp", "package.json">>, TRUE)
    /\ ens.added = {<<"myapp", "package.json">>}

\* C15: for a target filename whose first segment is none of frontend, backend and
\* package.json, the project root is <workspace>/<first segment>; <root>/frontend and
\* <root>/backend exist before the manifest existence check and any manifest write; the
\* manifest is written at <root>/package.json and no file is written anywhere else.
C15_ProjectRoot ==
    [][(/\ ens'.calls = ens.calls + 1
        /\ ~ens'.ctx.code_doc.nil /\ ens'.ctx.code_doc.has_path
        /\ FirstSegment(ens'.ctx) \notin WellKnown) =>
           LET root == <<FirstSegment(ens'.ctx)>>
               manifest == root \o <<"package.json">>
               log == ens'.log
           IN /\ \A i \in OpsOf(log, {"exists", "save", "write"}) :
                    /\ log[i].path = manifest
                    /\ i > 2
                    /\ log[1] = Op("mkdir", root \o <<"frontend">>, TRUE)
                    /\ log[2] = Op("mkdir", root \o <<"backend">>, TRUE)
                    /\ fs'[root \o <<"frontend">>] = "dir" /\ fs'[root \o <<"backend">>] = "dir"
              /\ \A path \in Paths \ {manifest} : IsFile(fs'[path]) => fs'[path] = fs[path]
              /\ ens'.added \subseteq {manifest}]_vars

\* A call for myapp/backend/server.js made the directories and then saved the manifest.
C15_Witness ==
    /\ ens.calls = 1 /\ ens.ctx.filename = "myapp/backend/server.js"
    /\ ens.log = <<Op("mkdir", <<"myapp", "frontend">>, TRUE), Op("mkdir", <<"myapp", "backend">>, TRUE),
                   Op("mkdir", <<"myapp">>, TRUE), Op("exists", <<"myapp", "package.json">>, FALSE),
                   Op("save", <<"myapp", "package.json">>, TRUE)>>
    /\ fs[<<"myapp", "package.json">>] = DefaultManifest /\ fs[<<"package.json">>] = "absent"

\* C16: for a target filename whose first segment is frontend, backend or package.json,
\* the project root is the workspace itself, no sub-area directory is created, and the
\* only file the call may create is <workspace>/package.json.
C16_WorkspaceRoot ==
    [][(/\ ens'.calls = ens.calls + 1
        /\ ~ens'.ctx.code_doc.nil /\ ens'.ctx.code_doc.has_path
        /\ FirstSegment(ens'.ctx) \in WellKnown) =>
           /\ \A path \in Paths \ {<<"package.json">>} : fs'[path] = fs[path]
           /\ fs'[<<"package.json">>] # fs[<<"package.json">>] => fs[<<"package.json">>] = "absent"
           /\ \A i \in OpsOf(ens'.log, {"mkdir"}) : ens'.log[i].path = <<>>
           /\ \A i \in OpsOf(ens'.log, {"exists", "save", "write"}) : ens'.log[i].path = <<"package.json">>
           /\ ens'.added \subseteq {<<"package.json">>}]_vars

\* A call for frontend/App.js created the workspace's manifest; frontend and backend are
\* still absent.
C16_Witness ==
    /\ ens.calls = 1 /\ ens.ctx.filename = "frontend/App.js"
    /\ ens.added = {<<"package.json">>}
    /\ fs[<<"frontend">>] = "absent" /\ fs[<<"backend">>] = "absent"
    /\ fs[<<"package.json">>] = DefaultManifest

\* C17: when the coding context has no code document, or its code document has no
\* root-relative path, ensure_critical_files is a no-op: it returns the empty set, creates
\* no directory, makes no store save and writes no file.
C17_NoCodeRoot ==
    [][(ens'.calls = ens.calls + 1 /\ (ens'.ctx.code_doc.nil \/ ~ens'.ctx.code_doc.has_path)) =>
           /\ fs' = fs
           /\ ens'.added = {} /\ ens'.log = <<>> /\ ~ens'.raised]_vars

\* Two calls on a code document without path, with no manifest and no project directory
\* in place: nothing was made.
C17_Witness ==
    /\ ens.calls = 2 /\ ~ens.ctx.code_doc.nil /\ ~ens.ctx.code_doc.has_path
    /\ ens.ctx.filename = "myapp/backend/server.js"
    /\ fs[<<"myapp">>] = "absent" /\ fs[<<"package.json">>] = "absent"
    /\ ens.added = {} /\ ens.log = <<>>

----------------------------------------------------------------------------
(* Properties of WriteDesign.run *)

\* The elements of a sequence.
Range(seq) == {seq[i] : i \in 1..Len(seq)}

\* The backend calls made for a filename.
FillsFor(filename) == {i \in 1..Len(fills) : fills[i].filename = filename}

\* The changed requirement filenames that the first loop is done with.
PrdsDone == Range(wd.changed_prds) \ Range(wd.todo_prds)

\* The filenames the second loop has put through _update_system_design.
DesignsDone == Range(wd.changed_files) \ Range(wd.changed_prds)

MergeContext(old_content, prd_content) == [old_design |-> <<old_content>>, context |-> prd_content]

NotJson == {f \in DOMAIN designs : ~designs[f].content.json}

\* C12: when the content of the design document cannot be parsed as JSON, the extraction
\* step (interface description or call flow) is skipped: it does not raise, so that
\* _update_system_design goes on to the other step and returns the saved document.
C12_ExtractionSkipped ==
    (ex.calls > 0 /\ ex.filename \in NotJson) => ex.error = "none"

\* The changed filenames run has attempted: those in changed_files.docs, and the one
\* _update_system_design was called for when it raised.
Attempted ==
    Handled \cup (IF wd.pc = "raised" /\ wd.todo_prds = <<>> /\ wd.todo_designs # <<>>
                  THEN {Head(wd.todo_designs)} ELSE {})

\* C18: an exception raised while run processes one changed file (backend, store or
\* extraction failure) does not abort the batch: every remaining changed filename is
\* still processed, so run never ends on an exception with a changed filename unattempted.
C18_BatchContinues ==
    wd.pc = "raised" => (Range(wd.todo_prds) \cup Range(wd.todo_designs)) \subseteq Attempted

\* The run of WriteCode has built its prompt.
PromptBuilt ==
    run.pc \in {"write_code", "ensure", "returned"} \/ (run.pc = "raised" /\ run.error = "ensure_critical_files")

\* C19: an absent upstream document never makes a caller fail, empty content is
\* substituted: WriteCode.run builds its prompt with empty text for an absent design,
\* task or requirement document, and _update_system_design proceeds with empty
\* requirement content when the requirement document of the filename is absent.
C19_AbsentSubstituted ==
    /\ PromptBuilt =>
          /\ ~run.prompt.nil
          /\ run.ctx.design_doc.nil => run.prompt.design = NoText
          /\ run.ctx.task_doc.nil => run.prompt.task = NoText
          /\ ~run.requirement => run.prompt.user_requirement = NoText
    /\ (run.pc = "raised" /\ run.error = "get_codes") => ~run.ctx.task_doc.nil
    /\ (wd.pc = "raised" /\ wd.todo_prds = <<>> /\ wd.todo_designs # <<>>) =>
          (Head(wd.todo_designs) \notin DOMAIN prds => wd.error # "prd is None")

\* C20: every save of a design document by run records as dependencies only documents
\* that exist in their store at the time of the save, whatever the kind of change
\* (added, modified, deleted) that changed_files reports. The requirement store does not
\* change during run, so every dependency of a design document names a requirement in it.
C20_DependenciesExist ==
    \A f \in DOMAIN designs : \A d \in designs[f].dependencies : d.filename \in DOMAIN prds

\* The extraction steps called for a filename, in order.
RECURSIVE StepsFor(_, _)
StepsFor(called, filename) ==
    IF called = <<>> THEN <<>>
    ELSE (IF Head(called).filename = filename THEN <<Head(called).method>> ELSE <<>>)
         \o StepsFor(Tail(called), filename)

\* The outputs written for a filename, in order.
RECURSIVE OutputsFor(_, _)
OutputsFor(written, filename) ==
    IF written = <<>> THEN <<>>
    ELSE (IF Head(written).filename = filename THEN <<Head(written).op>> ELSE <<>>)
         \o OutputsFor(Tail(written), filename)

\* The outputs of a design content with the given keys: a diagram for each description
\* it has, under the initial or the refined key, then the PDF.
ExpectedOutputs(keys) ==
    (IF keys \cap {"Data structures and interfaces", "Refined Data structures and interfaces"} # {}
     THEN <<"class_view">> ELSE <<>>)
    \o (IF keys \cap {"Program call flow", "Refined Program call flow"} # {} THEN <<"seq_flow">> ELSE <<>>)
    \o <<"pdf">>

BothSteps == <<"_save_data_api_design", "_save_seq_flow">>

C22_NoMarker ==
    (IncReturned /\ (gc.exclude \notin DOMAIN old_srcs \/ gc.exclude = "main.py")) =>
        /\ BlocksOf(gc.result.codes, gc.exclude) = {}
        /\ \A i \in 1..Len(gc.result.codes) : gc.result.codes[i].kind = "code"

\* The excluded file is main.py, which both stores have, and another file got a block.
C22_Witness ==
    /\ IncReturned /\ gc.exclude = "main.py"
    /\ "main.py" \in DOMAIN old_srcs /\ "main.py" \in DOMAIN srcs
    /\ Len(gc.result.codes) = 1

\* The run has stopped part-way: cancelled, or ended by a propagated exception.
Stopped == wd.pc \in {"cancelled", "raised"}

\* The changed filenames that run has not got to.
NeverAttempted == (Range(wd.todo_prds) \cup Range(wd.todo_designs)) \ Attempted

\* C23: if run stops part-way through its changed files (cancellation, or a failure
\* propagated at file k), every design document it saved for an earlier file stays saved
\* with the content it was given: no step of run changes or removes a document saved
\* earlier, and once run has stopped nothing is saved, asked or written any more.
C23_NothingRolledBack ==
    [][/\ \A f \in PrdsDone \cup DesignsDone : f \in DOMAIN designs' /\ designs'[f] = designs[f]
       /\ \A f \in PrdsDone' : f \in DOMAIN designs' /\ designs'[f].content = REACT_NODE_TEMPLATE
       /\ \A f \in DesignsDone' : f \in DOMAIN designs' /\ designs'[f].content.json
       /\ Stopped => /\ designs' = designs /\ wd' = wd
                     /\ fills' = fills /\ steps' = steps /\ outputs' = outputs]_vars

\* The run was cancelled after the first changed file was saved and before the second
\* one was attempted.
C23_Witness ==
    /\ wd.pc = "cancelled"
    /\ \E f \in PrdsDone \cup DesignsDone : f \in DOMAIN designs
    /\ NeverAttempted # {}

\* C24: within one run of WriteCode the retries re-run only the generation call: the
\* lookups, get_codes and the construction of the prompt happen once, before the first
\* attempt, and are not repeated on a retry; every attempt is made with the same prompt.
C24_RetriesOnlyGenerate ==
    [][/\ wc'.attempts = wc.attempts + 1 =>
             /\ run' = run /\ gc' = gc
             /\ ~run.prompt.nil
             /\ wc'.prompts = Append(wc.prompts, run.prompt)
       /\ \A i \in 1..Len(wc'.prompts) : wc'.prompts[i] = run'.prompt
       /\ gc.called => gc' = gc
       /\ ~run.prompt.nil => (run'.prompt = run.prompt /\ run'.pc # "start")]_vars

\* Six attempts were made, all with the prompt built from the one get_codes call.
C24_Witness ==
    /\ wc.attempts = 6 /\ Len(wc.prompts) = 6 /\ gc.called
    /\ run.prompt.code = gc.result.text /\ gc.result.text # <<>>

\* The filenames that both changed_files mappings report.
InBoth == Range(wd.changed_prds) \cap Range(wd.changed_system_designs)

\* C25: run handles each changed filename exactly once: a filename that is both a
\* changed requirement and a changed design is handled by the requirements loop only
\* (no backend call, no extraction step, the template saved) and skipped by the designs
\* loop; the returned collection has exactly the union of the two changed sets as keys,
\* each once; when nothing changed it is empty and run saves nothing and asks nothing.
C25_HandledOnce ==
    [][/\ wd'.pc = "returned" =>
             /\ Range(wd'.changed_files) = Range(wd'.changed_prds) \cup Range(wd'.changed_system_designs)
             /\ Len(wd'.changed_files) = Cardinality(Range(wd'.changed_files))
             /\ \A f \in InBoth' :
                   /\ FillsFor(f)' = {} /\ StepsFor(steps', f) = <<>>
                   /\ designs'[f] = SavedDesign(REACT_NODE_TEMPLATE, {workdir_path(f)})
       /\ \A f \in Range(wd.changed_files) :
             /\ FillsFor(f)' = FillsFor(f)
             /\ f \in DOMAIN designs => (f \in DOMAIN designs' /\ designs'[f] = designs[f])
       /\ (wd.changed_prds = <<>> /\ wd.changed_system_designs = <<>>) =>
             /\ designs' = designs /\ fills' = fills /\ wd'.changed_files = <<>>
             /\ wd'.pc \in {"returned", "cancelled"}]_vars

\* The run has returned after both loops met the same filename, whose requirement and
\* design documents exist, and the designs loop handled another one.
C25_Witness ==
    /\ wd.pc = "returned"
    /\ InBoth \cap DOMAIN prds \cap wd.old_designs # {}
    /\ DesignsDone # {}
    /\ Len(wd.changed_files) = 2

====
